---------------------------- MODULE Spec2Model ----------------------------
(***************************************************************************)
(* Model of zoning.py: geocode an address, query the PortlandMaps zoning   *)
(* layer, query the buildings layer, print the reports.  The remote        *)
(* services are the environment: every answer they can give is an input    *)
(* drawn by the action that issues the request.                            *)
(*                                                                         *)
(* Python values are modelled as follows.  An optional value (None or v)   *)
(* is a sequence of length 0 or 1.  An exception is a record [type, msg].  *)
(* A call's outcome is a record [exc, val] of two optionals: the exception *)
(* it raised and the value it returned.  A JSON value that the code reads  *)
(* as "attributes" is a record [t, d]: null, a non-empty string, or a dict *)
(* d (a function from keys to values).                                     *)
(***************************************************************************)
EXTENDS Integers, Sequences, FiniteSets, TLC

VARIABLES
    entry,      \* which entry point runs: __main__ or a direct call of a function
    pc,         \* position in the running code
    address,    \* get_zoning_for_address's argument
    geo,        \* optional: geocode_address's return value
    feature,    \* optional: query_zoning's return value
    result,     \* optional: get_zoning_for_address's return value
    coords,     \* <<lat, lon>> passed to query_building / query_taxlot
    ret,        \* optional: return value of query_building / query_taxlot
    err,        \* optional: exception raised to the caller of the running function
    idx,        \* query_taxlot: index of the next url of the for loop
    reqs,       \* history: every request issued, with the answer it got
    out,        \* standard output: the items printed so far
    steps       \* history: the order of the requests and prints

vars == <<entry, pc, address, geo, feature, result, coords, ret, err, idx,
          reqs, out, steps>>

---------------------------------------------------------------------------
(* Bounds and input sets *)

\* longest "features" array an endpoint answers with
MaxFeatures == 2

MainAddress == "935 NE 33RD AVE, Portland, OR"
Addresses == {MainAddress, "1 NOWHERE ST"}

GEOCODER == "nominatim"
ZONING_QUERY_URL == "COP_OpenData_ZoningCode/MapServer/16/query"
BUILDING_QUERY_URL == "COP_OpenData_Property/MapServer/184/query"
TAXLOT_URLS == << "COP_OpenData_Property/MapServer/1272/query",
                  "COP_OpenData_Property/MapServer/47/query" >>

\* what geolocator.geocode yields: a Location (finite coordinates, display name)
Locations ==
    { [latitude |-> 45, longitude |-> -122, matched_address |-> "935 Northeast 33rd Avenue"],
      [latitude |-> 46, longitude |-> -123, matched_address |-> "33rd Avenue, Portland"] }

\* an answer of the geocoding service: no match (None), a Location, or a failure
GeocoderAnswers ==
    { [kind |-> "none", loc |-> << >>], [kind |-> "fail", loc |-> << >>] }
    \cup { [kind |-> "match", loc |-> <<l>>] : l \in Locations }

Keys == {"ZONE", "BLDG_NAME"}
Dicts == UNION { [S -> {"v"}] : S \in SUBSET Keys }
EmptyDict == [k \in {} |-> "v"]

PyNone == [t |-> "null", d |-> EmptyDict]
AttrValues == {PyNone, [t |-> "str", d |-> EmptyDict]}
              \cup { [t |-> "dict", d |-> d] : d \in Dicts }

\* an element of the "features" array: a JSON object with or without the
\* "attributes" member, or a JSON number
Features ==
    { [kind |-> "num", hasAttrs |-> FALSE, attributes |-> PyNone],
      [kind |-> "obj", hasAttrs |-> FALSE, attributes |-> PyNone] }
    \cup { [kind |-> "obj", hasAttrs |-> TRUE, attributes |-> a] : a \in AttrValues }

FeatureLists == UNION { [1..n -> Features] : n \in 0..MaxFeatures }

\* a response body: not JSON, a JSON array, or a JSON object with or without
\* the "features" member
Bodies ==
    { [json |-> "invalid", hasFeatures |-> FALSE, features |-> << >>],
      [json |-> "array", hasFeatures |-> FALSE, features |-> << >>],
      [json |-> "object", hasFeatures |-> FALSE, features |-> << >>] }
    \cup { [json |-> "object", hasFeatures |-> TRUE, features |-> fs] : fs \in FeatureLists }

\* what requests.get meets: no connection, an HTTP error status, or 200 and a body
Responses ==
    { [net |-> "fail", status |-> 0, body |-> [json |-> "invalid", hasFeatures |-> FALSE, features |-> << >>]],
      [net |-> "ok", status |-> 500, body |-> [json |-> "invalid", hasFeatures |-> FALSE, features |-> << >>]] }
    \cup { [net |-> "ok", status |-> 200, body |-> b] : b \in Bodies }

CoordPairs == { <<l.latitude, l.longitude>> : l \in Locations }

---------------------------------------------------------------------------
(* Python helpers *)

Exc(type, msg) == [type |-> type, msg |-> msg]
Raise(type, msg) == [exc |-> <<Exc(type, msg)>>, val |-> << >>]
Return(v) == [exc |-> << >>, val |-> <<v>>]

\* bool(v) of an attributes value
Truthy(a) == \/ a.t = "str"
             \/ a.t = "dict" /\ DOMAIN a.d # {}

\* d.get(k): None for a missing key
Get(d, k) == IF k \in DOMAIN d THEN <<d[k]>> ELSE << >>

\* the geometry parameter f"{lon},{lat}"
Geometry(lat, lon) == <<lon, lat>>

Request(to, arg, ans) == [to |-> to, arg |-> arg, ans |-> ans]

---------------------------------------------------------------------------
(* The functions of zoning.py *)

\* variant of geocode_address without the "location is None" test: reading
\* location.latitude of None raises AttributeError
geocode_address_unchecked(ans) ==
    IF ans.kind = "fail"
    THEN Raise("GeocoderServiceError", "geocoding service failed")
    ELSE IF ans.kind = "none"
    THEN Raise("AttributeError", "'NoneType' object has no attribute 'latitude'")
    ELSE Return([latitude |-> ans.loc[1].latitude,
                 longitude |-> ans.loc[1].longitude,
                 matched_address |-> ans.loc[1].matched_address])

\* geocode_address: the Location as a dict, ValueError when there is no match;
\* a failure inside geolocator.geocode propagates
geocode_address(ans) ==
    IF ans.kind = "fail"
    THEN Raise("GeocoderServiceError", "geocoding service failed")
    ELSE IF ans.kind = "none"
    THEN Raise("ValueError", "Address could not be geocoded")
    ELSE Return([latitude |-> ans.loc[1].latitude,
                 longitude |-> ans.loc[1].longitude,
                 matched_address |-> ans.loc[1].matched_address])

\* variant of fetch_features without resp.raise_for_status()
fetch_features_nostatus(resp) ==
    IF resp.net = "fail"
    THEN Raise("ConnectionError", "connection failed")
    ELSE IF resp.body.json = "invalid"
    THEN Raise("JSONDecodeError", "expecting value")
    ELSE IF resp.body.json = "array"
    THEN Raise("AttributeError", "'list' object has no attribute 'get'")
    ELSE Return(IF resp.body.hasFeatures THEN resp.body.features ELSE << >>)

\* requests.get; resp.raise_for_status(); resp.json(); data.get("features", [])
fetch_features(resp) ==
    IF resp.net = "fail"
    THEN Raise("ConnectionError", "connection failed")
    ELSE IF resp.status >= 400
    THEN Raise("HTTPError", "server error")
    ELSE IF resp.body.json = "invalid"
    THEN Raise("JSONDecodeError", "expecting value")
    ELSE IF resp.body.json = "array"
    THEN Raise("AttributeError", "'list' object has no attribute 'get'")
    ELSE Return(IF resp.body.hasFeatures THEN resp.body.features ELSE << >>)

\* f["attributes"]
feature_attributes(f) ==
    IF f.kind # "obj"
    THEN Raise("TypeError", "'int' object is not subscriptable")
    ELSE IF ~f.hasAttrs
    THEN Raise("KeyError", "'attributes'")
    ELSE Return(f.attributes)

\* the body of a try block: the first feature's attributes when the answer has
\* features, and no value (the block falls through) when it has none
first_attributes(resp) ==
    LET fs == fetch_features(resp) IN
    IF fs.exc # << >> THEN fs
    ELSE IF fs.val[1] # << >> THEN feature_attributes(fs.val[1][1])
    ELSE [exc |-> << >>, val |-> << >>]

\* variant of query_building without the try/except
query_building_uncaught(resp) ==
    LET r == first_attributes(resp) IN
    IF r.exc # << >> THEN r
    ELSE IF r.val # << >> THEN r
    ELSE Return(PyNone)

\* query_building: every exception of the try block is swallowed
query_building(resp) ==
    LET r == first_attributes(resp) IN
    IF r.exc # << >> THEN Return(PyNone)
    ELSE IF r.val # << >> THEN r
    ELSE Return(PyNone)

\* variant of taxlot_iteration whose except clause returns None
taxlot_iteration_stop(resp) ==
    LET r == first_attributes(resp) IN
    IF r.exc # << >> THEN [returns |-> TRUE, val |-> <<PyNone>>]
    ELSE IF r.val # << >> THEN [returns |-> TRUE, val |-> r.val]
    ELSE [returns |-> FALSE, val |-> << >>]

\* one iteration of query_taxlot's loop: return the attributes, or go on
taxlot_iteration(resp) ==
    LET r == first_attributes(resp) IN
    IF r.exc # << >> THEN [returns |-> FALSE, val |-> << >>]
    ELSE IF r.val # << >> THEN [returns |-> TRUE, val |-> r.val]
    ELSE [returns |-> FALSE, val |-> << >>]

\* variant of query_zoning without the "if not features" test
query_zoning_unchecked(resp) ==
    LET fs == fetch_features(resp) IN
    IF fs.exc # << >> THEN fs
    ELSE IF fs.val[1] = << >>
    THEN Raise("IndexError", "list index out of range")
    ELSE Return(fs.val[1][1])

\* query_zoning: nothing is caught; no features is a ValueError
query_zoning(resp) ==
    LET fs == fetch_features(resp) IN
    IF fs.exc # << >> THEN fs
    ELSE IF fs.val[1] = << >>
    THEN Raise("ValueError", "No zoning data found for this location")
    ELSE Return(fs.val[1][1])

extract_zoning_attrs(f) ==
    LET a == feature_attributes(f) IN
    IF a.exc # << >> THEN a
    ELSE IF a.val[1].t # "dict"
    THEN Raise("AttributeError", "object has no attribute 'get'")
    ELSE Return([base_zone |-> Get(a.val[1].d, "ZONE"),
                 overlay_zones |-> Get(a.val[1].d, "OVERLAY"),
                 plan_district |-> Get(a.val[1].d, "PLAN_DISTRICT"),
                 source |-> "Portland Maps - Zoning Code",
                 raw_attributes |-> a.val[1].d])

\* variant of LookupReport with latitude and longitude exchanged
LookupReport_swapped(addr, g, zoning) ==
    [input_address |-> addr,
     matched_address |-> g.matched_address,
     location |-> [lat |-> g.longitude, lon |-> g.latitude],
     zoning |-> zoning]

\* the dict get_zoning_for_address returns
LookupReport(addr, g, zoning) ==
    [input_address |-> addr,
     matched_address |-> g.matched_address,
     location |-> [lat |-> g.latitude, lon |-> g.longitude],
     zoning |-> zoning]

\* get_zoning_for_address after geocode_address has returned g
lookup_zoning(addr, g, resp) ==
    LET f == query_zoning(resp) IN
    IF f.exc # << >> THEN f
    ELSE LET z == extract_zoning_attrs(f.val[1]) IN
         IF z.exc # << >> THEN z
         ELSE Return(LookupReport(addr, g, z.val[1]))

\* the fields the zoning report renders, in the order of its lines
format_zoning_result(r) ==
    [input_address |-> r.input_address,
     matched_address |-> r.matched_address,
     latitude |-> r.location.lat,
     longitude |-> r.location.lon,
     base_zone |-> r.zoning.base_zone,
     zone_desc |-> Get(r.zoning.raw_attributes, "ZONE_DESC"),
     overlay |-> Get(r.zoning.raw_attributes, "OVRLY"),
     plan_district |-> Get(r.zoning.raw_attributes, "PLDIST"),
     source |-> r.zoning.source]

Line(kind, data) == [line |-> kind, data |-> data]

\* print_building_info: the lines it prints and the exception it ends with
print_building_info(a) ==
    IF Truthy(a)
    THEN IF a.t = "dict"
         THEN [exc |-> << >>,
               lines |-> << Line("building_header", ""),
                            Line("building_fields", [name |-> Get(a.d, "BLDG_NAME"),
                                                     addr |-> Get(a.d, "BLDG_ADDR")]) >>]
         ELSE [exc |-> <<Exc("AttributeError", "'str' object has no attribute 'get'")>>,
               lines |-> << Line("building_header", "") >>]
    ELSE [exc |-> << >>,
          lines |-> << Line("building_header", ""), Line("no_building", "") >>]

---------------------------------------------------------------------------
(* The state machine *)

Init ==
    /\ entry = "none"
    /\ pc = "idle"
    /\ address = ""
    /\ geo = << >>
    /\ feature = << >>
    /\ result = << >>
    /\ coords = <<0, 0>>
    /\ ret = << >>
    /\ err = << >>
    /\ idx = 1
    /\ reqs = << >>
    /\ out = << >>
    /\ steps = << >>

\* where an exception goes: to __main__'s except clause, or out of a direct call
Raised == IF entry = "main" THEN "except" ELSE "done"

\* python zoning.py
CallMain ==
    /\ pc = "idle"
    /\ entry' = "main"
    /\ address' = MainAddress
    /\ pc' = "geocode"
    /\ UNCHANGED <<geo, feature, result, coords, ret, err, idx, reqs, out, steps>>

\* a caller's get_zoning_for_address(a)
CallLookup ==
    /\ pc = "idle"
    /\ \E a \in Addresses : address' = a
    /\ entry' = "lookup"
    /\ pc' = "geocode"
    /\ UNCHANGED <<geo, feature, result, coords, ret, err, idx, reqs, out, steps>>

\* a caller's query_building(lat, lon)
CallQueryBuilding ==
    /\ pc = "idle"
    /\ \E c \in CoordPairs : coords' = c
    /\ entry' = "query_building"
    /\ pc' = "query_building"
    /\ UNCHANGED <<address, geo, feature, result, ret, err, idx, reqs, out, steps>>

\* a caller's query_taxlot(lat, lon)
CallQueryTaxlot ==
    /\ pc = "idle"
    /\ \E c \in CoordPairs : coords' = c
    /\ entry' = "query_taxlot"
    /\ pc' = "query_taxlot"
    /\ idx' = 1
    /\ UNCHANGED <<address, geo, feature, result, ret, err, reqs, out, steps>>

\* get_zoning_for_address: geo = geocode_address(address)
GeocodeAddress ==
    /\ pc = "geocode"
    /\ \E ans \in GeocoderAnswers :
         LET r == geocode_address(ans) IN
         /\ reqs' = Append(reqs, Request(GEOCODER, address, ans))
         /\ geo' = r.val
         /\ err' = r.exc
         /\ pc' = IF r.exc # << >> THEN Raised ELSE "query_zoning"
    /\ steps' = Append(steps, "geocode")
    /\ UNCHANGED <<entry, address, feature, result, coords, ret, idx, out>>

\* get_zoning_for_address: query_zoning, extract_zoning_attrs, return the report
QueryZoning ==
    /\ pc = "query_zoning"
    /\ \E resp \in Responses :
         LET f == query_zoning(resp)
             r == lookup_zoning(address, geo[1], resp) IN
         /\ reqs' = Append(reqs, Request(ZONING_QUERY_URL,
                                         Geometry(geo[1].latitude, geo[1].longitude), resp))
         /\ feature' = f.val
         /\ result' = r.val
         /\ err' = r.exc
         /\ pc' = IF r.exc # << >> THEN Raised
                  ELSE IF entry = "main" THEN "print_zoning" ELSE "done"
    /\ steps' = Append(steps, "zoning")
    /\ UNCHANGED <<entry, address, geo, coords, ret, idx, out>>

\* variant of PrintZoning reading lat and lon from the wrong members
PrintZoning_swapped ==
    /\ pc = "print_zoning"
    /\ out' = Append(out, Line("zoning_report", format_zoning_result(result[1])))
    /\ coords' = <<result[1].location.lon, result[1].location.lat>>
    /\ pc' = "query_building"
    /\ steps' = Append(steps, "print_zoning")
    /\ UNCHANGED <<entry, address, geo, feature, result, ret, err, idx, reqs>>

\* __main__: print(format_zoning_result(result)); lat, lon = result["location"]
PrintZoning ==
    /\ pc = "print_zoning"
    /\ out' = Append(out, Line("zoning_report", format_zoning_result(result[1])))
    /\ coords' = <<result[1].location.lat, result[1].location.lon>>
    /\ pc' = "query_building"
    /\ steps' = Append(steps, "print_zoning")
    /\ UNCHANGED <<entry, address, geo, feature, result, ret, err, idx, reqs>>

\* variant of QueryBuilding that asks a second time after a transport failure
QueryBuilding_retry ==
    /\ pc = "query_building"
    /\ \E resp \in Responses :
         LET r == query_building(resp)
             again == (resp.net = "fail" \/ resp.status >= 400)
                      /\ \A i \in DOMAIN reqs : reqs[i].to # BUILDING_QUERY_URL IN
         /\ reqs' = Append(reqs, Request(BUILDING_QUERY_URL,
                                         Geometry(coords[1], coords[2]), resp))
         /\ ret' = IF again THEN ret ELSE r.val
         /\ err' = r.exc
         /\ pc' = IF again THEN "query_building"
                  ELSE IF r.exc # << >> THEN Raised
                  ELSE IF entry = "main" THEN "print_building" ELSE "done"
    /\ steps' = Append(steps, "building")
    /\ UNCHANGED <<entry, address, geo, feature, result, coords, idx, out>>

\* query_building(lat, lon)
QueryBuilding ==
    /\ pc = "query_building"
    /\ \E resp \in Responses :
         LET r == query_building(resp) IN
         /\ reqs' = Append(reqs, Request(BUILDING_QUERY_URL,
                                         Geometry(coords[1], coords[2]), resp))
         /\ ret' = r.val
         /\ err' = r.exc
         /\ pc' = IF r.exc # << >> THEN Raised
                  ELSE IF entry = "main" THEN "print_building" ELSE "done"
    /\ steps' = Append(steps, "building")
    /\ UNCHANGED <<entry, address, geo, feature, result, coords, idx, out>>

\* __main__: print_building_info(building_attrs)
PrintBuildingInfo ==
    /\ pc = "print_building"
    /\ LET p == print_building_info(ret[1]) IN
         /\ out' = out \o p.lines
         /\ err' = p.exc
         /\ pc' = IF p.exc # << >> THEN "except" ELSE "done"
    /\ steps' = Append(steps, "print_building")
    /\ UNCHANGED <<entry, address, geo, feature, result, coords, ret, idx, reqs>>

\* variant of MainExcept whose try block ends after the zoning part, so that
\* the building query follows the error line
MainExcept_continue ==
    /\ pc = "except"
    /\ out' = Append(out, Line("error", err[1].msg))
    /\ pc' = IF ret = << >> THEN "query_building" ELSE "done"
    /\ steps' = Append(steps, "print_error")
    /\ UNCHANGED <<entry, address, geo, feature, result, coords, ret, err, idx, reqs>>

\* __main__: except Exception as e: print(f"Error: {e}")
MainExcept ==
    /\ pc = "except"
    /\ out' = Append(out, Line("error", err[1].msg))
    /\ pc' = "done"
    /\ steps' = Append(steps, "print_error")
    /\ UNCHANGED <<entry, address, geo, feature, result, coords, ret, err, idx, reqs>>

\* query_taxlot: one iteration of "for url in urls"
QueryTaxlotUrl ==
    /\ pc = "query_taxlot"
    /\ idx <= Len(TAXLOT_URLS)
    /\ \E resp \in Responses :
         LET r == taxlot_iteration(resp) IN
         /\ reqs' = Append(reqs, Request(TAXLOT_URLS[idx],
                                         Geometry(coords[1], coords[2]), resp))
         /\ ret' = r.val
         /\ pc' = IF r.returns THEN "done" ELSE "query_taxlot"
         /\ idx' = IF r.returns THEN idx ELSE idx + 1
    /\ steps' = Append(steps, "taxlot")
    /\ UNCHANGED <<entry, address, geo, feature, result, coords, err, out>>

\* query_taxlot: the loop is over: return None
QueryTaxlotNone ==
    /\ pc = "query_taxlot"
    /\ idx > Len(TAXLOT_URLS)
    /\ ret' = <<PyNone>>
    /\ pc' = "done"
    /\ UNCHANGED <<entry, address, geo, feature, result, coords, err, idx, reqs, out, steps>>

Next ==
    \/ CallMain
    \/ CallLookup
    \/ CallQueryBuilding
    \/ CallQueryTaxlot
    \/ GeocodeAddress
    \/ QueryZoning
    \/ PrintZoning
    \/ QueryBuilding
    \/ PrintBuildingInfo
    \/ MainExcept
    \/ QueryTaxlotUrl
    \/ QueryTaxlotNone

Spec == Init /\ [][Next]_vars

---------------------------------------------------------------------------
(* Vocabulary of the properties: what the services answered, read off the   *)
(* recorded answers and not off the functions above                         *)

Count(u) == Cardinality({ i \in DOMAIN reqs : reqs[i].to = u })

GeocodeNotFound == Exc("ValueError", "Address could not be geocoded")
NoZoningData == Exc("ValueError", "No zoning data found for this location")

\* the run went through get_zoning_for_address
InLookup == entry \in {"main", "lookup"}

\* the geocoder was asked and had no match / a match
GeocoderNoMatch == InLookup /\ Len(reqs) >= 1 /\ reqs[1].ans.kind = "none"
GeocoderMatch == InLookup /\ Len(reqs) >= 1 /\ reqs[1].ans.kind = "match"

\* the zoning endpoint was asked
ZoningAsked == InLookup /\ Len(reqs) >= 2

\* network failure or non-2xx status
TransportFailure(resp) == resp.net = "fail" \/ resp.status >= 400

\* a well-formed JSON object answered over a working transport
AnswersObject(resp) == ~TransportFailure(resp) /\ resp.body.json = "object"

\* the endpoint answered with zero features
ZeroFeatures(resp) ==
    AnswersObject(resp) /\ (~resp.body.hasFeatures \/ resp.body.features = << >>)

\* the endpoint answered with features
HasFeatures(resp) ==
    AnswersObject(resp) /\ resp.body.hasFeatures /\ resp.body.features # << >>

\* the first feature is an object with an "attributes" member
FirstWellFormed(resp) ==
    HasFeatures(resp) /\ resp.body.features[1].kind = "obj"
                      /\ resp.body.features[1].hasAttrs

\* the endpoint errors (network failure, non-2xx status, malformed JSON,
\* malformed feature) or returns zero features
EndpointFails(resp) == ~FirstWellFormed(resp)

\* get_zoning_for_address is over
LookupOver == InLookup /\ pc \notin {"idle", "geocode", "query_zoning"}

ZoningReportPrinted == \E i \in DOMAIN out : out[i].line = "zoning_report"
ErrorPrinted == \E i \in DOMAIN out : out[i].line = "error"

---------------------------------------------------------------------------
(* C1: for every address the geocoder cannot resolve, get_zoning_for_address *)
(* fails with the geocode-not-found error, and at no point of the run is a   *)
(* zoning request or a building request issued.                              *)
C1_GeocodeFailFast ==
    GeocoderNoMatch =>
        /\ err = <<GeocodeNotFound>>
        /\ result = << >>
        /\ Count(ZONING_QUERY_URL) = 0
        /\ Count(BUILDING_QUERY_URL) = 0
        /\ Len(reqs) = 1

C1_Witness == GeocoderNoMatch /\ entry = "main" /\ pc = "done"

(* C2 as stated: for every address the geocoder resolves, lookup returns a  *)
(* report with the geocoder's address and coordinates, whatever the zoning  *)
(* endpoint answers.                                                        *)
C2_Original ==
    (GeocoderMatch /\ LookupOver) =>
        /\ result # << >>
        /\ result[1].matched_address # ""
        /\ result[1].location.lat = reqs[1].ans.loc[1].latitude
        /\ result[1].location.lon = reqs[1].ans.loc[1].longitude

(* C2 amended: for every address the geocoder resolves, when the zoning     *)
(* endpoint answers with features whose first one carries an attributes     *)
(* mapping, lookup returns a report whose input_address is the argument,    *)
(* whose matched_address is the geocoder's non-empty address and whose      *)
(* coordinates are the geocoder's; on every other zoning answer it returns  *)
(* no report and raises.                                                    *)
C2_ReportCarriesGeocode ==
    (GeocoderMatch /\ LookupOver) =>
        IF FirstWellFormed(reqs[2].ans) /\ reqs[2].ans.body.features[1].attributes.t = "dict"
        THEN /\ result # << >>
             /\ err = << >> \/ entry = "main"
             /\ result[1].input_address = address
             /\ result[1].matched_address = reqs[1].ans.loc[1].matched_address
             /\ result[1].matched_address # ""
             /\ result[1].location.lat = reqs[1].ans.loc[1].latitude
             /\ result[1].location.lon = reqs[1].ans.loc[1].longitude
        ELSE result = << >> /\ err # << >>

C2_Witness ==
    /\ GeocoderMatch /\ entry = "lookup" /\ pc = "done"
    /\ result # << >>
    /\ Len(reqs[2].ans.body.features) = MaxFeatures

C5_NoZoningData ==
    (ZoningAsked /\ ZeroFeatures(reqs[2].ans)) =>
        err = <<NoZoningData>> /\ result = << >>

C5_Witness ==
    /\ ZoningAsked /\ ZeroFeatures(reqs[2].ans) /\ reqs[2].ans.body.hasFeatures
    /\ entry = "lookup" /\ pc = "done"

(* C6: in __main__, any error raised by get_zoning_for_address aborts the   *)
(* run before the building query: no building request is ever issued, and   *)
(* the whole output of the run is the single line "Error: <message>".       *)
C6_LookupErrorAborts ==
    (entry = "main" /\ LookupOver /\ result = << >>) =>
        /\ Count(BUILDING_QUERY_URL) = 0
        /\ err # << >>
        /\ out = IF pc = "done" THEN << Line("error", err[1].msg) >> ELSE << >>

C6_Witness ==
    /\ entry = "main" /\ pc = "done" /\ result = << >>
    /\ ZoningAsked /\ TransportFailure(reqs[2].ans)

(* C7: whenever get_zoning_for_address succeeded, for every answer of the   *)
(* building endpoint the run of __main__ prints the zoning report followed  *)
(* by a building section and never an "Error:" line; when the building path *)
(* failed the section is the "no data found" line.                          *)
C7_BuildingNeverAborts ==
    (entry = "main" /\ pc = "done" /\ result # << >>) =>
        /\ ~ErrorPrinted
        /\ Len(out) = 3
        /\ out[1].line = "zoning_report"
        /\ out[2].line = "building_header"
        /\ out[3].line \in {"building_fields", "no_building"}
        /\ EndpointFails(reqs[3].ans) => out[3].line = "no_building"

(* C8: query_zoning requests exactly one endpoint exactly once; an HTTP     *)
(* level failure of it reaches the caller of get_zoning_for_address as the  *)
(* transport failure itself, which is neither the no-zoning-data error nor  *)
(* the geocode-not-found error.                                             *)
C8_StrictZoning ==
    ZoningAsked =>
        /\ reqs[2].to = ZONING_QUERY_URL
        /\ Count(ZONING_QUERY_URL) = 1
        /\ entry = "lookup" => Len(reqs) = 2
        /\ TransportFailure(reqs[2].ans) =>
               /\ Len(reqs) = 2
               /\ result = << >>
               /\ Len(err) = 1
               /\ err[1].type = (IF reqs[2].ans.net = "fail" THEN "ConnectionError" ELSE "HTTPError")
               /\ err[1] # NoZoningData
               /\ err[1] # GeocodeNotFound

C8_Witness ==
    /\ ZoningAsked /\ entry = "lookup" /\ pc = "done"
    /\ reqs[2].ans.net = "ok" /\ reqs[2].ans.status >= 400

(* C9: nothing is retried: in a run of __main__ the geocoder, the zoning    *)
(* endpoint and the building endpoint are each requested at most once, in   *)
(* query_taxlot each candidate endpoint is requested at most once, and a    *)
(* transport failure is the last request of its call: query_building        *)
(* returns None, get_zoning_for_address raises.                             *)
C9_NoRetry ==
    /\ \A u \in {GEOCODER, ZONING_QUERY_URL, BUILDING_QUERY_URL,
                 TAXLOT_URLS[1], TAXLOT_URLS[2]} : Count(u) <= 1
    /\ \A i \in DOMAIN reqs :
          (reqs[i].to # GEOCODER /\ TransportFailure(reqs[i].ans)) =>
              /\ reqs[i].to = BUILDING_QUERY_URL => (i = Len(reqs) /\ ret = <<PyNone>>)
              /\ reqs[i].to = ZONING_QUERY_URL =>
                     (i = Len(reqs) /\ result = << >> /\ err # << >>)
              /\ reqs[i].to \in {TAXLOT_URLS[1], TAXLOT_URLS[2]} =>
                     (pc = "done" /\ i = Len(reqs) => ret = <<PyNone>>)

C9_Witness ==
    /\ entry = "main" /\ pc = "done" /\ Len(reqs) = 3
    /\ TransportFailure(reqs[3].ans)

(* C10 as stated: in __main__ no report is formatted or printed before the  *)
(* building query has been issued.                                          *)
C10_Original ==
    (entry = "main" /\ out # << >> /\ ~ErrorPrinted) => Count(BUILDING_QUERY_URL) = 1

(* C10 amended: in every successful run of __main__ the steps are, in this  *)
(* order: the geocoder call, the zoning query at the geocoder's             *)
(* coordinates, the printing of the zoning report, the building query at    *)
(* the same coordinates, the printing of the building section.              *)
C10_StepOrder ==
    (entry = "main" /\ pc = "done" /\ ~ErrorPrinted) =>
        /\ steps = << "geocode", "zoning", "print_zoning", "building", "print_building" >>
        /\ reqs[1].to = GEOCODER /\ reqs[1].arg = MainAddress
        /\ reqs[2].to = ZONING_QUERY_URL
        /\ reqs[2].arg = << reqs[1].ans.loc[1].longitude, reqs[1].ans.loc[1].latitude >>
        /\ reqs[3].to = BUILDING_QUERY_URL
        /\ reqs[3].arg = reqs[2].arg
        /\ out[1].line = "zoning_report"
        /\ out[1].data.latitude = reqs[1].ans.loc[1].latitude
        /\ out[1].data.longitude = reqs[1].ans.loc[1].longitude

C10_Witness ==
    /\ entry = "main" /\ pc = "done" /\ ~ErrorPrinted
    /\ Len(out) = 3 /\ out[3].line = "building_fields"

=============================================================================
